---- MODULE Spec2Model ----
(***************************************************************************)
(* Model of google-drive-sync-latest (main.go): the token lifecycle of     *)
(* getClient, the folder and listing queries, the per-file sync loop of    *)
(* main with fileExists and cleanFilename, and the helper DownloadFile.    *)
(* The operator re-running the program is modelled by Rerun; the local     *)
(* file system and token.json persist across runs, the remote folder is    *)
(* unchanged.                                                              *)
(***************************************************************************)
EXTENDS Integers, Sequences, FiniteSets, TLC

\* ------------------------------------------------------------- bounds ----
MaxFiles == 2       \* longest remote listing explored (the code asks for 25)
MaxRuns == 2        \* number of times the operator runs the program
MaxNameLen == 3     \* longest name fed to cleanFilename in SpecClean
BodyLen == 2        \* bytes in a remote file's content stream

\* --------------------------------------------------- cleanFilename ------
\* Characters are one-character strings, names are sequences of them.
Letters == {"a", "b", "c", "d", "e", "f", "g", "h", "i", "j", "k", "l", "m",
            "n", "o", "p", "q", "r", "s", "t", "u", "v", "w", "x", "y", "z",
            "A", "B", "C", "D", "E", "F", "G", "H", "I", "J", "K", "L", "M",
            "N", "O", "P", "Q", "R", "S", "T", "U", "V", "W", "X", "Y", "Z"}
Digits == {"0", "1", "2", "3", "4", "5", "6", "7", "8", "9"}

\* The character class a-zA-Z0-9._- of the regular expression.
ClassChars == Letters \cup Digits \cup {".", "_", "-"}

\* One character matches [^a-zA-Z0-9._-].
reMatchesChar(c) == c \notin ClassChars

\* The expression without its +: a match is one character long.
reMatchEndNoPlus(s, i) == i

\* End (exclusive) of the longest match of [^a-zA-Z0-9._-]+ whose first
\* character is at position i - 1 of s: the first position from i on that
\* holds a class character, or Len(s) + 1.
RECURSIVE reMatchEnd(_, _)
reMatchEnd(s, i) ==
    IF i <= Len(s) /\ reMatchesChar(s[i]) THEN reMatchEnd(s, i + 1) ELSE i

\* re.ReplaceAllString(s, "_") from position i on.
RECURSIVE ReplaceAllFrom(_, _)
ReplaceAllFrom(s, i) ==
    IF i > Len(s) THEN <<>>
    ELSE IF reMatchesChar(s[i])
         THEN <<"_">> \o ReplaceAllFrom(s, reMatchEnd(s, i + 1))
         ELSE <<s[i]>> \o ReplaceAllFrom(s, i + 1)

cleanFilename(in) == ReplaceAllFrom(in, 1)

\* ------------------------------------------------------- the inputs -----
targetDir == <<"t">>

\* outName := targetDir + "/" + cleanFilename(f.Name)
OutNameOf(name) == targetDir \o <<"/">> \o cleanFilename(name)

\* f.ModifiedTime strings: a wall-clock hour with a zone offset in RFC3339
\* layout, or text in another layout.
GoodTime == [layout |-> "rfc3339", hour |-> 14, zone |-> 2]
BadTime == [layout |-> "other", hour |-> 0, zone |-> 0]

\* The remote files of the explored listings (name, modifiedTime); the last
\* two names sanitize to the same local name.
RemoteFiles == { [name |-> <<"a">>, modifiedTime |-> GoodTime],
                 [name |-> <<"b", " ">>, modifiedTime |-> BadTime],
                 [name |-> <<"b", "/", "/">>, modifiedTime |-> GoodTime] }

\* time.Parse(time.RFC3339Nano, s): the instant (in hours UTC) or an error.
ParseTime(s) ==
    IF s.layout = "rfc3339"
    THEN [ok |-> TRUE, t |-> s.hour - s.zone]
    ELSE [ok |-> FALSE, t |-> 0]

\* The content stream the remote API serves for file id.
Body(id) == [j \in 1..BodyLen |-> id]

\* PageSize(25) of the listing query.
PageSize == 25

\* The listings the remote folder may hold: up to MaxFiles distinct remote
\* files in any order, the id of an entry is its position.
Listings ==
    UNION { { [i \in 1..n |-> [id |-> i, name |-> e[i].name,
                               modifiedTime |-> e[i].modifiedTime]] :
                e \in { g \in [1..n -> RemoteFiles] :
                          \A i, j \in 1..n : g[i] = g[j] => i = j } } :
            n \in 0..MaxFiles }

Paths == { OutNameOf(f.name) : f \in RemoteFiles }

\* The wall clock at which run r creates its files.
Now(r) == 100 + r

Absent == [kind |-> "absent", content |-> <<>>, mtime |-> 0, atime |-> 0]
OldFile == [kind |-> "file", content |-> <<0>>, mtime |-> 1, atime |-> 1]
Dir == [kind |-> "dir", content |-> <<>>, mtime |-> 1, atime |-> 1]

VARIABLES
    pc,          \* position of the process: start, tokenFromFile, web, save,
                 \* service, list, loop, download, create, copy, mtime,
                 \* and the ends exit, fatal (log.Fatalf), crashed (panic)
    run,         \* number of the current run
    remote,      \* the remote folder's listing
    tokenFile,   \* token.json: absent, valid, garbled
    tok,         \* the token held in memory: none, file, web
    authorized,  \* getClient has returned a client in this run
    files,       \* files.Files
    idx,         \* entries of files.Files the range loop has taken
    outName,     \* outName of the entry being processed
    fs,          \* the target directory: path -> kind, content, times
    openBodies,  \* response bodies opened and not closed
    openFiles,   \* local file handles opened and not closed
    reqs,        \* indices of the entries this run requested a download of
    results,     \* the outcome of each entry this run has processed
    prevResults, \* the outcomes of the previous run
    clobbered,   \* os.Create has truncated a regular file that existed
    dfRet        \* outcome of the last DownloadFile call

vars == <<pc, run, remote, tokenFile, tok, authorized, files, idx, outName, fs,
          openBodies, openFiles, reqs, results, prevResults, clobbered,
          dfRet>>

authVars == <<tokenFile, tok, authorized>>
loopVars == <<files, idx, outName, fs, openBodies, openFiles, reqs, results,
             prevResults, clobbered>>

Init ==
    /\ pc = "start"
    /\ run = 1
    /\ remote \in Listings
    /\ tokenFile \in {"absent", "valid", "garbled"}
    /\ tok = "none"
    /\ authorized = FALSE
    /\ files = <<>>
    /\ idx = 0
    /\ outName = <<>>
    /\ fs \in [Paths -> {Absent, OldFile, Dir}]
    /\ openBodies = 0
    /\ openFiles = 0
    /\ reqs = {}
    /\ results = <<>>
    /\ prevResults = <<>>
    /\ clobbered = FALSE
    /\ dfRet = "none"

\* ------------------------------------------------------ main: set-up ----
Ends == {"exit", "fatal", "crashed"}

\* main up to the call of getClient: the argument count (usage, return),
\* os.MkdirAll, ioutil.ReadFile and google.ConfigFromJSON (log.Fatalf each).
MainSetup ==
    /\ pc = "start"
    /\ \E o \in {"usage", "fatal", "ok"} :
         pc' = CASE o = "usage" -> "exit"
                 [] o = "fatal" -> "fatal"
                 [] OTHER -> "tokenFromFile"
    /\ UNCHANGED <<run, remote, authVars, loopVars, dfRet>>

\* tokenFromFile(file): os.Open fails when the file is absent, Decode fails
\* when its content is no token.
tokenFromFile == IF tokenFile = "valid" THEN "ok" ELSE "err"

\* getClient, lines 54-56 and 60: a token read from token.json is used as is.
TokenFromFile ==
    /\ pc = "tokenFromFile"
    /\ IF tokenFromFile = "ok"
       THEN /\ tok' = "file"
            /\ authorized' = TRUE
            /\ pc' = "service"
       ELSE /\ pc' = "web"
            /\ UNCHANGED <<tok, authorized>>
    /\ UNCHANGED <<run, remote, tokenFile, loopVars, dfRet>>

\* getTokenFromWeb: fmt.Scan or config.Exchange failing is fatal.
GetTokenFromWeb ==
    /\ pc = "web"
    /\ \E o \in {"scanfail", "exchangefail", "ok"} :
         IF o = "ok"
         THEN /\ tok' = "web"
              /\ pc' = "save"
         ELSE /\ pc' = "fatal"
              /\ UNCHANGED tok
    /\ UNCHANGED <<run, remote, tokenFile, authorized, loopVars, dfRet>>

\* saveToken(path, token): os.OpenFile with O_CREATE|O_TRUNC failing is
\* fatal; the error of Encode is dropped, so a failed write leaves a
\* truncated or partial token.json and returns.
saveToken(openFails, encodeFails) ==
    IF openFails
    THEN [fatal |-> TRUE, file |-> tokenFile]
    ELSE [fatal |-> FALSE, file |-> IF encodeFails THEN "garbled" ELSE "valid"]

\* getClient, lines 58 and 60.
SaveToken ==
    /\ pc = "save"
    /\ \E openFails \in BOOLEAN, encodeFails \in BOOLEAN :
         LET r == saveToken(openFails, encodeFails) IN
         /\ tokenFile' = r.file
         /\ IF r.fatal
            THEN /\ pc' = "fatal"
                 /\ UNCHANGED authorized
            ELSE /\ pc' = "service"
                 /\ authorized' = TRUE
    /\ UNCHANGED <<run, remote, tok, loopVars, dfRet>>

\* drive.New and the folder query: an error or no folder is fatal.
ResolveFolder ==
    /\ pc = "service"
    /\ \E o \in {"newfail", "listerr", "nofolders", "ok"} :
         pc' = IF o = "ok" THEN "list" ELSE "fatal"
    /\ UNCHANGED <<run, remote, authVars, loopVars, dfRet>>

\* The page the listing query returns.
FirstPage(listing) ==
    SubSeq(listing, 1, IF Len(listing) < PageSize THEN Len(listing) ELSE PageSize)

\* The listing query: an error or an empty listing is fatal.
ListFiles ==
    /\ pc = "list"
    /\ \E fails \in BOOLEAN :
         IF fails \/ Len(FirstPage(remote)) = 0
         THEN /\ pc' = "fatal"
              /\ UNCHANGED files
         ELSE /\ pc' = "loop"
              /\ files' = FirstPage(remote)
    /\ UNCHANGED <<run, remote, authVars, idx, outName, fs, openBodies, openFiles,
                   reqs, results, prevResults, clobbered, dfRet>>

\* ------------------------------------------------- main: the sync loop --
\* os.Stat(filename): an error other than ENOENT (EACCES on the target
\* directory, ENAMETOOLONG, EIO) returns a nil FileInfo.
Stat(filename, statFails) ==
    IF statFails THEN [err |-> "other", info |-> "nil"]
    ELSE IF fs[filename].kind = "absent" THEN [err |-> "notexist", info |-> "nil"]
    ELSE [err |-> "none", info |-> fs[filename].kind]

\* fileExists returning info.IsDir() instead of !info.IsDir().
fileExistsInverted(filename, statFails) ==
    LET st == Stat(filename, statFails) IN
    IF st.err = "notexist" THEN "false"
    ELSE IF st.info = "nil" THEN "panic"
    ELSE IF st.info = "dir" THEN "true" ELSE "false"

\* fileExists reporting false whatever Stat finds.
fileExistsAlwaysFalse(filename, statFails) ==
    LET st == Stat(filename, statFails) IN
    IF st.err = "notexist" THEN "false"
    ELSE IF st.info = "nil" THEN "panic"
    ELSE "false"

\* fileExists(filename): false on ENOENT; otherwise !info.IsDir(), which
\* dereferences the nil info of any other Stat error and panics.
fileExists(filename, statFails) ==
    LET st == Stat(filename, statFails) IN
    IF st.err = "notexist" THEN "false"
    ELSE IF st.info = "nil" THEN "panic"
    ELSE IF st.info = "dir" THEN "false" ELSE "true"

Record(outcome) == Append(results, outcome)

\* The range step, outName and the existence check (lines 168-178).
CheckExists ==
    /\ pc = "loop"
    /\ idx < Len(files)
    /\ idx' = idx + 1
    /\ outName' = OutNameOf(files[idx + 1].name)
    /\ \E statFails \in BOOLEAN :
         LET e == fileExists(OutNameOf(files[idx + 1].name), statFails) IN
         CASE e = "panic" -> /\ pc' = "crashed"
                             /\ UNCHANGED results
           [] e = "true" -> /\ pc' = "loop"
                            /\ results' = Record("skipped")
           [] OTHER -> /\ pc' = "download"
                       /\ UNCHANGED results
    /\ UNCHANGED <<run, remote, authVars, files, fs, openBodies, openFiles, reqs,
                   prevResults, clobbered, dfRet>>

\* The range is exhausted: main returns.
LoopDone ==
    /\ pc = "loop"
    /\ idx = Len(files)
    /\ pc' = "exit"
    /\ UNCHANGED <<run, remote, authVars, loopVars, dfRet>>

\* srv.Files.Get(f.Id).Download() (lines 182-187): on an error there is no
\* response to close.
Download ==
    /\ pc = "download"
    /\ reqs' = reqs \cup {idx}
    /\ \E fails \in BOOLEAN :
         IF fails
         THEN /\ pc' = "loop"
              /\ results' = Record("dlfailed")
              /\ UNCHANGED openBodies
         ELSE /\ pc' = "create"
              /\ openBodies' = openBodies + 1
              /\ UNCHANGED results
    /\ UNCHANGED <<run, remote, authVars, files, idx, outName, fs, openFiles,
                   prevResults, clobbered, dfRet>>

\* The create-failure branch without its resp.Body.Close().
AfterCreateFailedLeak == [bodies |-> openBodies, files |-> openFiles]

\* The handles left open after the create-failure branch (line 196).
AfterCreateFailed == [bodies |-> openBodies - 1, files |-> openFiles]

\* os.Create(outName) (lines 191-198): O_CREATE|O_TRUNC; a directory at the
\* path, or the environment, makes it fail.
Create ==
    /\ pc = "create"
    /\ \E envFails \in BOOLEAN :
         IF envFails \/ fs[outName].kind = "dir"
         THEN /\ pc' = "loop"
              /\ results' = Record("createfailed")
              /\ openBodies' = AfterCreateFailed.bodies
              /\ openFiles' = AfterCreateFailed.files
              /\ UNCHANGED <<fs, clobbered>>
         ELSE /\ pc' = "copy"
              /\ fs' = [fs EXCEPT ![outName] =
                          [kind |-> "file", content |-> <<>>,
                           mtime |-> Now(run), atime |-> Now(run)]]
              /\ clobbered' = (clobbered \/ fs[outName].kind = "file")
              /\ openFiles' = openFiles + 1
              /\ UNCHANGED <<openBodies, results>>
    /\ UNCHANGED <<run, remote, authVars, files, idx, outName, reqs, prevResults,
                   dfRet>>

\* The handles left open after lines 202-203.
AfterCopy == [bodies |-> openBodies - 1, files |-> openFiles - 1]

\* io.Copy(out, resp.Body) and the two Close calls (lines 200-203): the
\* copy stops after n bytes, its error is dropped.
Copy ==
    /\ pc = "copy"
    /\ \E n \in 0..BodyLen :
         fs' = [fs EXCEPT ![outName].content = SubSeq(Body(files[idx].id), 1, n)]
    /\ openBodies' = AfterCopy.bodies
    /\ openFiles' = AfterCopy.files
    /\ pc' = "mtime"
    /\ UNCHANGED <<run, remote, authVars, files, idx, outName, reqs, results,
                   prevResults, clobbered, dfRet>>

\* os.Chtimes setting the modification time only.
ChtimesSkipsAtime(file, t, fails) ==
    IF fails THEN file ELSE [file EXCEPT !.mtime = t]

\* os.Chtimes(outName, t, t): the times of the file after the call.
Chtimes(file, t, fails) ==
    IF fails THEN file ELSE [file EXCEPT !.mtime = t, !.atime = t]

\* time.Parse and os.Chtimes (lines 207-217): both failures are warnings.
SetModTime ==
    /\ pc = "mtime"
    /\ LET p == ParseTime(files[idx].modifiedTime) IN
       IF ~p.ok
       THEN /\ results' = Record("stored_noparse")
            /\ UNCHANGED fs
       ELSE \E fails \in BOOLEAN :
              /\ fs' = [fs EXCEPT ![outName] = Chtimes(@, p.t, fails)]
              /\ results' = Record(IF fails THEN "stored_nochtimes" ELSE "stored")
    /\ pc' = "loop"
    /\ UNCHANGED <<run, remote, authVars, files, idx, outName, openBodies,
                   openFiles, reqs, prevResults, clobbered, dfRet>>

\* The operator runs the program again: a new process, the same disk and
\* the same remote folder.
Rerun ==
    /\ pc \in Ends
    /\ run < MaxRuns
    /\ run' = run + 1
    /\ pc' = "start"
    /\ tok' = "none"
    /\ authorized' = FALSE
    /\ files' = <<>>
    /\ idx' = 0
    /\ outName' = <<>>
    /\ reqs' = {}
    /\ results' = <<>>
    /\ prevResults' = results
    /\ dfRet' = "none"
    /\ UNCHANGED <<remote, tokenFile, fs, openBodies, openFiles, clobbered>>

Next ==
    \/ MainSetup
    \/ TokenFromFile
    \/ GetTokenFromWeb
    \/ SaveToken
    \/ ResolveFolder
    \/ ListFiles
    \/ CheckExists
    \/ LoopDone
    \/ Download
    \/ Create
    \/ Copy
    \/ SetModTime
    \/ Rerun

Spec == Init /\ [][Next]_vars

\* ------------------------------------------------------ DownloadFile ----
\* DownloadFile(d, t, f): what it returns and the response bodies it opens
\* and closes. link is f.WebContentLink (empty, unparsable or usable).
\* When RoundTrip fails resp is nil, and the defer statement, which
\* evaluates resp.Body before the error check, panics.
DownloadFile(link, roundTripFails, readFails) ==
    IF link = "" THEN [ret |-> "nobody", opened |-> 0, closed |-> 0]
    ELSE IF link = "unparsable" THEN [ret |-> "reqerr", opened |-> 0, closed |-> 0]
    ELSE IF roundTripFails THEN [ret |-> "panic", opened |-> 0, closed |-> 0]
    ELSE IF readFails THEN [ret |-> "readerr", opened |-> 1, closed |-> 1]
    ELSE [ret |-> "ok", opened |-> 1, closed |-> 1]

\* main never calls DownloadFile; here a caller invokes it once the sync
\* loop has returned.
CallDownloadFile ==
    /\ pc = "exit"
    /\ dfRet = "none"
    /\ \E link \in {"", "unparsable", "usable"},
          roundTripFails \in BOOLEAN, readFails \in BOOLEAN :
         LET r == DownloadFile(link, roundTripFails, readFails) IN
         /\ dfRet' = r.ret
         /\ openBodies' = openBodies + r.opened - r.closed
    /\ UNCHANGED <<pc, run, remote, authVars, files, idx, outName, fs, openFiles,
                   reqs, results, prevResults, clobbered>>

NextLib ==
    \/ Next
    \/ CallDownloadFile

SpecLib == Init /\ [][NextLib]_vars

\* ------------------------------------------- cleanFilename on its own ---
\* Characters of the names fed to cleanFilename: two of the class besides
\* the underscore, two outside it.
InputChars == {"a", ".", "_", " ", "/"}

InputNames == UNION { [1..n -> InputChars] : n \in 0..MaxNameLen }

InitClean ==
    /\ pc = "sanitize"
    /\ run = 1
    /\ \E n \in InputNames :
         remote = <<[id |-> 1, name |-> n, modifiedTime |-> GoodTime]>>
    /\ tokenFile = "valid"
    /\ tok = "none"
    /\ authorized = FALSE
    /\ files = <<>>
    /\ idx = 0
    /\ outName = <<>>
    /\ fs = [p \in Paths |-> Absent]
    /\ openBodies = 0
    /\ openFiles = 0
    /\ reqs = {}
    /\ results = <<>>
    /\ prevResults = <<>>
    /\ clobbered = FALSE
    /\ dfRet = "none"

\* cleanFilename applied to the name.
Sanitize ==
    /\ pc = "sanitize"
    /\ outName' = cleanFilename(remote[1].name)
    /\ pc' = "sanitized"
    /\ UNCHANGED <<run, remote, authVars, files, idx, fs, openBodies, openFiles,
                   reqs, results, prevResults, clobbered, dfRet>>

NextClean == Sanitize

SpecClean == InitClean /\ [][NextClean]_vars

\* ------------------------------------------------------- the claims -----
Stored == {"stored", "stored_noparse", "stored_nochtimes"}

\* The local path of the i-th listed entry.
PathOf(i) == OutNameOf(files[i].name)

\* The entry the loop takes next finds this kind of thing at its path.
NextEntryFinds(kind) ==
    /\ pc = "loop"
    /\ idx < Len(files)
    /\ fs[OutNameOf(files[idx + 1].name)].kind = kind

\* C1: when an entry is taken by the loop and a regular file exists at its
\* local path, processing the entry issues no download request and leaves
\* every local file as it is; the loop goes on to the next entry (or the
\* existence check itself stops the process).
C1_ExistenceShortCircuit ==
    [][NextEntryFinds("file") =>
         /\ reqs' = reqs
         /\ fs' = fs
         /\ openBodies' = openBodies
         /\ pc' \in {"loop", "crashed"}]_vars

C1_Witness ==
    /\ pc = "loop"
    /\ Len(results) >= 1
    /\ results[Len(results)] = "skipped"
    /\ fs[PathOf(Len(results))] = OldFile

C3_BatchNeverAborted ==
    /\ pc # "crashed"
    /\ (pc \in Ends /\ Len(files) > 0) => Len(results) = Len(files)

\* C4: a client built on a token obtained from the web is returned only
\* with that token persisted in token.json.
C4_TokenPersisted ==
    (authorized /\ tok = "web") => tokenFile = "valid"

\* C5 as stated: a stored entry whose modification time parses has that
\* instant as access and modification time of its local file.
C5_ParsedTimeApplied ==
    \A i \in 1..Len(results) :
        (results[i] \in Stored /\ ParseTime(files[i].modifiedTime).ok) =>
            /\ fs[PathOf(i)].mtime = ParseTime(files[i].modifiedTime).t
            /\ fs[PathOf(i)].atime = ParseTime(files[i].modifiedTime).t

\* C5 as amended: the instant is applied to both times when the timestamp
\* parses and os.Chtimes succeeds; when the timestamp does not parse, or
\* os.Chtimes fails, the file is written all the same, keeps the times of
\* its creation, and the loop goes on.
C5_TimeAppliedUnlessChtimesFails ==
    \A i \in 1..Len(results) :
        LET p == ParseTime(files[i].modifiedTime)
            f == fs[PathOf(i)]
        IN  /\ results[i] \in Stored => f.kind = "file"
            /\ (results[i] \in Stored /\ ~p.ok) => results[i] = "stored_noparse"
            /\ (results[i] \in Stored /\ p.ok) => results[i] # "stored_noparse"
            /\ results[i] = "stored" => f.mtime = p.t /\ f.atime = p.t
            /\ results[i] \in {"stored_noparse", "stored_nochtimes"} =>
                   f.mtime = Now(run) /\ f.atime = Now(run)
            /\ (results[i] \in Stored /\ i = idx) => pc \in {"loop", "exit"}

C5_Witness ==
    /\ pc = "exit"
    /\ \E i, j \in 1..Len(results) :
         /\ results[i] = "stored"
         /\ fs[PathOf(i)].mtime = 12
         /\ results[j] = "stored_noparse"

\* C6: outside the steps between a successful download request and the
\* two Close calls no response body and no local file handle is open: at
\* the top of every loop iteration, at the end of the process, and after
\* DownloadFile has returned. Between them exactly the handles acquired
\* so far are open.
C6_NoHandleLeft ==
    /\ pc \notin {"create", "copy"} => (openBodies = 0 /\ openFiles = 0)
    /\ pc = "create" => (openBodies = 1 /\ openFiles = 0)
    /\ pc = "copy" => (openBodies = 1 /\ openFiles = 1)

C6_Witness ==
    /\ pc = "exit"
    /\ \E i, j \in 1..Len(results) :
         /\ results[i] = "createfailed"
         /\ results[j] \in Stored
    /\ dfRet = "readerr"

\* C7: when an entry is taken by the loop and a directory is at its local
\* path, fileExists reports false and the loop goes on to the download
\* request.
C7_DirectoryNotSkipped ==
    [][NextEntryFinds("dir") => pc' = "download"]_vars

\* The index-wise description of the sanitized name: a character of the
\* class stays, the first character of a run outside the class becomes an
\* underscore, the rest of the run is dropped.
Collapsed(in) ==
    LET keep(i) == in[i] \in ClassChars \/ i = 1 \/ in[i - 1] \in ClassChars
        kept == SelectSeq([i \in 1..Len(in) |-> i], keep)
    IN  [j \in 1..Len(kept) |->
            IF in[kept[j]] \in ClassChars THEN in[kept[j]] ELSE "_"]

\* C8 as stated: for every input the output matches [A-Za-z0-9._-]+ : it
\* is not empty and consists of characters of the class.
C8_OutputMatchesPattern ==
    pc = "sanitized" =>
        /\ Len(outName) >= 1
        /\ \A i \in 1..Len(outName) : outName[i] \in ClassChars

\* C8 as amended: for every input the output consists of characters of
\* the class, each maximal run of characters outside the class has become
\* exactly one underscore and every other character is kept in order; the
\* output is empty exactly when the input is.
C8_Sanitized ==
    pc = "sanitized" =>
        /\ \A i \in 1..Len(outName) : outName[i] \in ClassChars
        /\ outName = Collapsed(remote[1].name)
        /\ Len(outName) = 0 <=> Len(remote[1].name) = 0

C8_Witness ==
    /\ pc = "sanitized"
    /\ remote[1].name = <<" ", "/", "a">>
    /\ outName = <<"_", "a">>

\* Entries i < j of the listing with the same local path.
SamePath(i, j) == i < j /\ PathOf(i) = PathOf(j)

\* C9 as stated: no regular file is truncated, and of several entries with
\* the same local path every one after the first is skipped.
C9_OnlyFirstIsWritten ==
    /\ ~clobbered
    /\ \A i, j \in 1..Len(results) : SamePath(i, j) => results[j] = "skipped"

\* C9 as amended: no regular file is truncated; of several entries with
\* the same local path at most one is written in a run: once one of them
\* has been skipped or stored, no later one is requested, and every later
\* one that gets an outcome is skipped. A later one is downloaded when the
\* earlier ones failed.
C9_NoOverwrite ==
    /\ ~clobbered
    /\ \A i \in 1..Len(results), j \in 1..idx :
         (SamePath(i, j) /\ results[i] \in Stored \cup {"skipped"}) =>
            /\ j \notin reqs
            /\ j <= Len(results) => results[j] = "skipped"

C9_Witness ==
    /\ pc = "exit"
    /\ Len(results) = 2
    /\ SamePath(1, 2)
    /\ results[1] \in Stored
    /\ results[2] = "skipped"

\* C10: the local file of a stored entry holds the whole content stream
\* of the remote file.
C10_StoredFileIsComplete ==
    \A i \in 1..Len(results) :
        results[i] \in Stored => fs[PathOf(i)].content = Body(files[i].id)

====
